---------------------------- MODULE Spec2Model ----------------------------
(***************************************************************************)
(* Model of src/app.py: a Streamlit script that reads eight sidebar        *)
(* widgets, calls the memoized physics kernel run_simulation, and renders  *)
(* either an error box or a dashboard ending with the BMS safety           *)
(* assessment.                                                             *)
(*                                                                         *)
(* Numbers.  TLA+ has integers only, so every real quantity is kept on a   *)
(* fixed decimal grid and all arithmetic on it is exact:                   *)
(*   temperatures   hundredths of a degree (K or degC), 5000 = 50.00 degC  *)
(*   ambient temp   whole degC (the slider is an int slider)               *)
(*   potentials     units of 1e-5 V, 500 = 0.005 V = 5.00 mV               *)
(*   voltages       millivolts, 5000 = 5.000 V                             *)
(*   current        hundredths of an ampere, fraction in hundredths        *)
(*   lengths        the pair <<micrometres, 1000000>> (a quotient)         *)
(* Formatted numbers (f"{x:.1f}") are integers in units of the last shown  *)
(* digit.  The grids below hold no value that lies exactly half way        *)
(* between two shown digits, where Python's answer depends on the binary   *)
(* representation of the float.                                            *)
(***************************************************************************)
EXTENDS Integers, Sequences, FiniteSets, TLC

VARIABLES
    widgets,    \* the eight sidebar widget values (session state)
    cache,      \* st.cache_data store of run_simulation: key -> returned value
    sol,        \* module-level name sol bound at line 116 in the last run
    rendered,   \* what the last script run put on the page
    runs,       \* number of script runs so far
    first,      \* history: arguments -> value the call at line 116 first returned
    solves,     \* history: arguments -> number of executions of sim.solve
    produced,   \* history: <<arguments, value>> pairs returned by the kernel body
    verdicts,   \* history: <<assessment inputs, verdict block>> of every assessment
    kernel,     \* history: what the kernel body did in the last run
    probe,      \* assessment inputs of the stand-alone rule evaluation
    outcome     \* result of the stand-alone rule evaluation

vars == <<widgets, cache, sol, rendered, runs, first, solves, produced,
          verdicts, kernel, probe, outcome>>

(***************************************************************************)
(* Bounds of the model.                                                    *)
(***************************************************************************)
MaxRuns == 3

(***************************************************************************)
(* Number formatting: n/d rounded to the nearest integer, ties to even     *)
(* (Python's format of an exactly representable value).                    *)
(***************************************************************************)
RoundHalfEven(n, d) ==
    LET q == n \div d
        r == n % d
    IN  IF 2 * r < d THEN q
        ELSE IF 2 * r > d THEN q + 1
        ELSE IF q % 2 = 0 THEN q ELSE q + 1

\* f"{t_max_c:.1f}": hundredths of a degree -> tenths
FormatTemp(t_max_c) == RoundHalfEven(t_max_c, 10)

\* f"{anode_pot*1000:.1f}": 1e-5 V -> tenths of a millivolt
FormatMilliVolt(anode_pot) == RoundHalfEven(anode_pot, 10)

\* f"{v_final:.2f}": millivolts -> hundredths of a volt
FormatVolt(v_final) == RoundHalfEven(v_final, 10)

(***************************************************************************)
(* BMS safety assessment, lines 165-175.                                   *)
(***************************************************************************)
ThermalLimit == 50 * 100        \* 50 degC
PlatingLimit == 5 * 100         \* 0.005 V
VoltageLimit == 5 * 1000        \* 5.0 V

\* the four conditions of lines 166-169; each Inclusive variant is the
\* comparison with the limit itself counted as a violation
ThermalViolationInclusive(t_max_c) == t_max_c >= ThermalLimit
ThermalViolation(t_max_c) == t_max_c > ThermalLimit

SubZeroInclusive(temp_c) == temp_c <= 0
SubZero(temp_c) == temp_c < 0

PlatingRisk(anode_pot) == anode_pot < PlatingLimit

OvervoltageInclusive(v_final) == v_final >= VoltageLimit
Overvoltage(v_final) == v_final > VoltageLimit

\* the messages of lines 166-169: the rule they name and the number they show
ThermalMsg(t_max_c) ==
    [rule |-> "Thermal Violation", shown |-> <<FormatTemp(t_max_c)>>]
SubZeroMsg ==
    [rule |-> "Sub-zero hazard", shown |-> <<>>]
PlatingMsg(anode_pot) ==
    [rule |-> "Plating Risk", shown |-> <<FormatMilliVolt(anode_pot)>>]
OvervoltageMsg(v_final) ==
    [rule |-> "Overvoltage", shown |-> <<FormatVolt(v_final)>>]

\* the list as it would be were it kept from the previous run
CarriedReasons == rendered.reasons
\* line 165: reasons = []
InitialReasons == <<>>

\* lines 166-169 as an if/elif chain: only the first matching rule reports
ReasonsElif(t_max_c, temp_c, anode_pot, v_final) ==
    IF ThermalViolation(t_max_c) THEN <<ThermalMsg(t_max_c)>>
    ELSE IF SubZero(temp_c) THEN <<SubZeroMsg>>
    ELSE IF PlatingRisk(anode_pot) THEN <<PlatingMsg(anode_pot)>>
    ELSE IF Overvoltage(v_final) THEN <<OvervoltageMsg(v_final)>>
    ELSE <<>>

\* lines 165-169: four independent ifs, each appending to reasons
Reasons(t_max_c, temp_c, anode_pot, v_final) ==
    LET r0 == InitialReasons
        r1 == IF ThermalViolation(t_max_c) THEN Append(r0, ThermalMsg(t_max_c)) ELSE r0
        r2 == IF SubZero(temp_c) THEN Append(r1, SubZeroMsg) ELSE r1
        r3 == IF PlatingRisk(anode_pot) THEN Append(r2, PlatingMsg(anode_pot)) ELSE r2
        r4 == IF Overvoltage(v_final) THEN Append(r3, OvervoltageMsg(v_final)) ELSE r3
    IN  r4

\* lines 171-175: st.success when reasons is empty, otherwise st.error
\* followed by one st.write per reason
VerdictBlock(reasons) ==
    IF reasons = <<>>
    THEN [safe |-> TRUE,  banner |-> "SAFE TO CHARGE",   written |-> <<>>]
    ELSE [safe |-> FALSE, banner |-> "CHARGING UNSAFE", written |-> reasons]

(***************************************************************************)
(* Sidebar widgets, lines 62-84.                                           *)
(***************************************************************************)
\* line 64: display name -> parameter-set name
chem_map ==
    [d \in {"Chen2020 (NMC/Graphite)", "OKane2022 (LCO/Graphite)",
            "Ai2020 (LFP/Graphite)"} |->
        IF d = "Chen2020 (NMC/Graphite)" THEN "Chen2020"
        ELSE IF d = "OKane2022 (LCO/Graphite)" THEN "OKane2022"
        ELSE "Ai2020"]

\* The values each widget takes in the model: its default and one or two
\* others inside the widget's range.
WidgetValues ==
    [selected_display |-> DOMAIN chem_map,    \* line 65
     charge_current   |-> {750, 1500},        \* line 70: 0.1 .. 15.0, default 7.5
     temp_c           |-> {25, -1},           \* line 71: -5 .. 55, default 25
     cooling_coeff    |-> {10, 0},            \* line 75: 0 .. 50, default 10
     n_thick          |-> {100, 50},          \* line 81: 50 .. 200, default 100
     p_thick          |-> {100, 200},         \* line 82: 50 .. 200, default 100
     p_rad            |-> {5, 1},             \* line 83: 1 .. 15, default 5
     active_frac      |-> {75, 95}]           \* line 84: 0.5 .. 0.95, default 0.75

WidgetNames == DOMAIN WidgetValues

\* the widgets' default values: the state of a new session
Defaults ==
    [selected_display |-> "Chen2020 (NMC/Graphite)",
     charge_current   |-> 750,
     temp_c           |-> 25,
     cooling_coeff    |-> 10,
     n_thick          |-> 100,
     p_thick          |-> 100,
     p_rad            |-> 5,
     active_frac      |-> 75]

\* lines 81-83: slider value in micrometres / 1e6
Metres(um) == <<um, 1000000>>

\* line 116: the eight arguments of the call, in the order of line 88
Arguments(w) ==
    [choice  |-> chem_map[w.selected_display],
     current |-> w.charge_current,
     temp    |-> w.temp_c,
     n_t     |-> Metres(w.n_thick),
     p_t     |-> Metres(w.p_thick),
     p_r     |-> Metres(w.p_rad),
     a_f     |-> w.active_frac,
     cooling |-> w.cooling_coeff]

(***************************************************************************)
(* The physics kernel, lines 87-114.  The simulation library is the        *)
(* environment: lib says which library call raises (if any) and, when      *)
(* none does, the series the solver returns.                               *)
(***************************************************************************)
\* the library calls of the body, in the order the body makes them
UnguardedStages == {"DFN", "ParameterValues", "update", "Simulation"}   \* lines 93-109
GuardedStages == {"solve"}                                              \* lines 110-114

\* Terminal values of a solution: last terminal voltage (mV), maximum
\* cell temperature (hundredths of K), last anode potential (1e-5 V).
SampleSeries ==
    { [voltage_last |-> 4200, temp_max |-> 30815, anode_last |-> 2000],
      [voltage_last |-> 5500, temp_max |-> 32815, anode_last |-> 300] }

NoSeries == [voltage_last |-> 0, temp_max |-> 0, anode_last |-> 0]

LibBehaviours ==
    { [raises |-> st, series |-> NoSeries] : st \in UnguardedStages \cup GuardedStages }
    \cup { [raises |-> "none", series |-> s] : s \in SampleSeries }

\* lines 89-91
Options(choice) ==
    IF choice = "OKane2022"
    THEN [thermal |-> "lumped", SEI |-> "ec reaction limited",
          plating |-> "partially reversible"]
    ELSE [thermal |-> "lumped", SEI |-> "", plating |-> ""]

\* lines 97-107: the values written into the parameter set
ParameterUpdate(args) ==
    [upper_cutoff  |-> VoltageLimit,
     ambient_K     |-> args.temp * 100 + 27315,
     current_fn    |-> -(IF args.current < 0 THEN -args.current ELSE args.current),
     n_thickness   |-> args.n_t,
     p_thickness   |-> args.p_t,
     n_radius      |-> args.p_r,
     active_frac   |-> args.a_f,
     heat_transfer |-> args.cooling,
     contact_res   |-> <<2, 100>>]

\* line 114: the failure token
SolverCrash ==
    [type |-> "str",
     text |-> "SOLVER CRASH: Physical limits exceeded (Mass transport or Stoichiometric saturation)."]

\* lines 93-112: the solution object of the model and parameter values
\* built from the arguments
Solution(args, series) ==
    [type |-> "Solution", series |-> series,
     options |-> Options(args.choice), parameter_values |-> ParameterUpdate(args)]

\* the name sol when the call at line 116 raised, or before the first run
Unbound == [type |-> "unbound"]

\* where the failing library call stands in the body
FailedAt(lib) ==
    IF lib.raises \in UnguardedStages THEN "before try"
    ELSE IF lib.raises \in GuardedStages THEN "in try"
    ELSE "none"

\* lines 89-114: the body of run_simulation.  raised says an exception
\* leaves the function; solved says sim.solve was executed.
Body(args, lib) ==
    IF lib.raises \in UnguardedStages
    THEN [raised |-> TRUE, value |-> Unbound, solved |-> FALSE]
    ELSE IF lib.raises \in GuardedStages
    THEN [raised |-> FALSE, value |-> SolverCrash, solved |-> TRUE]
    ELSE [raised |-> FALSE, value |-> Solution(args, lib.series), solved |-> TRUE]

(***************************************************************************)
(* @st.cache_data, line 87: the store is keyed by the hash of all the      *)
(* arguments; a returned value is stored, an exception is not; no entry    *)
(* limit and no time to live are given.                                    *)
(***************************************************************************)
\* a key that leaves the last argument out
CacheKeyWithoutCooling(args) ==
    <<args.choice, args.current, args.temp, args.n_t, args.p_t, args.p_r, args.a_f>>
\* line 88: the key of all eight arguments
CacheKey(args) ==
    <<args.choice, args.current, args.temp, args.n_t, args.p_t, args.p_r,
      args.a_f, args.cooling>>

\* a store that keeps one entry (max_entries=1)
CacheStoreEvicting(c, key, value) == [k \in {key} |-> value]
\* a store that keeps solutions only
CacheStoreSolutionsOnly(c, key, value) ==
    IF value.type = "str" THEN c
    ELSE [k \in DOMAIN c \cup {key} |-> IF k = key THEN value ELSE c[k]]
\* line 87: every returned value is kept, nothing is dropped
CacheStore(c, key, value) ==
    [k \in DOMAIN c \cup {key} |-> IF k = key THEN value ELSE c[k]]

\* lines 87-88 and 116: the memoized call.  ran says the body was executed.
run_simulation(c, args, lib) ==
    LET key == CacheKey(args) IN
    IF key \in DOMAIN c
    THEN [raised |-> FALSE, value |-> c[key], solved |-> FALSE, ran |-> FALSE, cache |-> c]
    ELSE LET b == Body(args, lib) IN
         [raised |-> b.raised, value |-> b.value, solved |-> b.solved, ran |-> TRUE,
          cache |-> IF b.raised THEN c ELSE CacheStore(c, key, b.value)]

(***************************************************************************)
(* Dashboard display, lines 119-175.                                       *)
(***************************************************************************)
\* lines 139-152: the eight panels of the grid, row by row
plot_map ==
    << "Terminal voltage [V]",
       "X-averaged cell temperature [K]",
       "X-averaged electrolyte concentration [mol.m-3]",
       "X-averaged negative electrode interfacial current density [A.m-2]",
       "Negative electrode surface potential difference at separator interface [V]",
       "X-averaged positive electrode potential [V]",
       "X-averaged negative particle surface concentration [mol.m-3]",
       "X-averaged positive particle surface concentration [mol.m-3]" >>

NoVerdict == [safe |-> FALSE, banner |-> "", written |-> <<>>]
NoInputs == [t_max_c |-> 0, temp_c |-> 0, anode_pot |-> 0, v_final |-> 0]

\* nothing on the page: a session before its first script run
Blank ==
    [view |-> "none", elements |-> <<>>, metrics |-> <<>>, panels |-> <<>>,
     inputs |-> NoInputs, reasons |-> <<>>, verdict |-> NoVerdict]

\* an exception leaves the script at line 116: the host shows the
\* exception, the rest of the script is not executed
Uncaught ==
    [Blank EXCEPT !.view = "exception",
                  !.elements = <<[st |-> "exception", body |-> "run_simulation"]>>]

\* line 120
ErrorState(value) ==
    [Blank EXCEPT !.view = "error",
                  !.elements = <<[st |-> "error", body |-> "Physics Divergence"]>>]

\* lines 122-175
Dashboard(value, w) ==
    LET v_final   == value.series.voltage_last              \* line 124
        t_max_c   == value.series.temp_max - 27315          \* line 125
        anode_pot == value.series.anode_last                \* line 127
        temp_c    == w.temp_c
        reasons   == Reasons(t_max_c, temp_c, anode_pot, v_final)
        verdict   == VerdictBlock(reasons)
        metrics   ==                                         \* lines 129-134
            << [label |-> "Terminal Voltage", shown |-> FormatVolt(v_final)],
               [label |-> "Max Cell Temp",    shown |-> FormatTemp(t_max_c)],
               [label |-> "Anode Potential",  shown |-> RoundHalfEven(anode_pot, 10)],
               [label |-> "Ambient Temp",     shown |-> temp_c],
               [label |-> "Cooling Coeff.",   shown |-> w.cooling_coeff] >>
        head ==
            << [st |-> "title", body |-> "Electrode Geometry & Battery Charging Stability Simulation"] >>
            \o [i \in 1..Len(metrics) |-> [st |-> "metric", body |-> metrics[i].label]]
            \o << [st |-> "subheader", body |-> "Internal Electrochemical State Analysis"],
                  [st |-> "plotly_chart", body |-> "fig"],
                  [st |-> "divider", body |-> ""],
                  [st |-> "subheader", body |-> "BMS Safety Assessment"] >>
        tail ==                                              \* lines 171-175
            IF verdict.safe
            THEN << [st |-> "success", body |-> verdict.banner] >>
            ELSE << [st |-> "error", body |-> verdict.banner] >>
                 \o [i \in 1..Len(verdict.written) |->
                        [st |-> "write", body |-> verdict.written[i].rule]]
    IN  [view |-> "dashboard", elements |-> head \o tail, metrics |-> metrics,
         panels |-> plot_map,
         inputs |-> [t_max_c |-> t_max_c, temp_c |-> temp_c,
                     anode_pot |-> anode_pot, v_final |-> v_final],
         reasons |-> reasons, verdict |-> verdict]

\* lines 119-121
Display(value, w) ==
    IF value.type = "str" THEN ErrorState(value) ELSE Dashboard(value, w)

(***************************************************************************)
(* One script run: the host executes the whole script, top to bottom, on   *)
(* a page load, on a rerun request and after every widget change.          *)
(***************************************************************************)
Bump(f, k) ==
    [x \in DOMAIN f \cup {k} |-> IF x = k THEN (IF k \in DOMAIN f THEN f[k] + 1 ELSE 1) ELSE f[x]]

ScriptRun(w, lib) ==
    LET args == Arguments(w)
        call == run_simulation(cache, args, lib)
        page == IF call.raised THEN Uncaught ELSE Display(call.value, w)
    IN  /\ runs < MaxRuns
        /\ runs' = runs + 1
        /\ widgets' = w
        /\ cache' = call.cache
        /\ sol' = call.value
        /\ rendered' = page
        /\ first' = IF ~call.raised /\ args \notin DOMAIN first
                    THEN [a \in DOMAIN first \cup {args} |->
                            IF a = args THEN call.value ELSE first[a]]
                    ELSE first
        /\ solves' = IF call.solved THEN Bump(solves, args) ELSE solves
        /\ produced' = IF call.ran /\ ~call.raised
                       THEN produced \cup {<<args, call.value>>}
                       ELSE produced
        /\ verdicts' = IF page.view = "dashboard"
                       THEN verdicts \cup {<<page.inputs, page.verdict>>}
                       ELSE verdicts
        /\ kernel' = [ran |-> call.ran,
                      failed |-> IF call.ran THEN FailedAt(lib) ELSE "none",
                      solved |-> call.solved,
                      args |-> args]
        /\ UNCHANGED <<probe, outcome>>

\* a page load or a rerun with the widgets as they are
SessionRun ==
    \E lib \in LibBehaviours : ScriptRun(widgets, lib)

\* the user moves one widget; the host reruns the script
WidgetChange ==
    /\ rendered.view # "none"
    /\ \E name \in WidgetNames :
         \E v \in WidgetValues[name] \ {widgets[name]} :
           \E lib \in LibBehaviours :
             ScriptRun([widgets EXCEPT ![name] = v], lib)

(***************************************************************************)
(* The rule evaluation on its own: lines 165-175 applied to inputs on a    *)
(* grid around the four limits.                                            *)
(***************************************************************************)
TMaxGrid    == {4996, 5000, 5004, 5500}     \* 49.96, 50.00, 50.04, 55.00 degC
AmbientGrid == {-5, -1, 0, 25}              \* degC, inside the slider's range
AnodeGrid   == {300, 496, 500, 2000}        \* 3.00, 4.96, 5.00, 20.00 mV
VoltageGrid == {4200, 5000, 5004, 5500}     \* 4.200, 5.000, 5.004, 5.500 V

AssessInputs ==
    [t_max_c : TMaxGrid, temp_c : AmbientGrid, anode_pot : AnodeGrid,
     v_final : VoltageGrid]

NoProbe == NoInputs
Pending == [done |-> FALSE, reasons |-> <<>>, verdict |-> NoVerdict]

\* lines 165-175 on the probe
Evaluate ==
    /\ ~outcome.done
    /\ LET reasons == Reasons(probe.t_max_c, probe.temp_c, probe.anode_pot, probe.v_final)
       IN  outcome' = [done |-> TRUE, reasons |-> reasons,
                       verdict |-> VerdictBlock(reasons)]
    /\ UNCHANGED <<widgets, cache, sol, rendered, runs, first, solves, produced,
                   verdicts, kernel, probe>>

AppInit ==
    /\ widgets = Defaults
    /\ cache = <<>>
    /\ sol = Unbound
    /\ rendered = Blank
    /\ runs = 0
    /\ first = <<>>
    /\ solves = <<>>
    /\ produced = {}
    /\ verdicts = {}
    /\ kernel = [ran |-> FALSE, failed |-> "none", solved |-> FALSE,
                 args |-> Arguments(Defaults)]

Init ==
    /\ AppInit
    /\ probe = NoProbe
    /\ outcome = Pending

Next == SessionRun \/ WidgetChange

Spec == Init /\ [][Next]_vars

InitAssess ==
    /\ AppInit
    /\ probe \in AssessInputs
    /\ outcome = Pending

NextAssess == Evaluate

SpecAssess == InitAssess /\ [][NextAssess]_vars

(***************************************************************************)
(* Properties of the rule evaluation, checked under SpecAssess.  The       *)
(* limits are written out here as the specification states them, in the    *)
(* units of the grids: 50 degC, 0 degC, 0.005 V, 5.0 V.                    *)
(***************************************************************************)
RuleOrder == <<"Thermal Violation", "Sub-zero hazard", "Plating Risk", "Overvoltage">>

\* the rule's condition as the specification words it
Violates(rule, in) ==
    CASE rule = "Thermal Violation" -> in.t_max_c > 5000
      [] rule = "Sub-zero hazard"   -> in.temp_c < 0
      [] rule = "Plating Risk"      -> in.anode_pot < 500
      [] rule = "Overvoltage"       -> in.v_final > 5000

Violated(in) == {i \in 1..Len(RuleOrder) : Violates(RuleOrder[i], in)}

RuleNames(reasons) == [i \in 1..Len(reasons) |-> reasons[i].rule]

\* C1: the verdict is safe with an empty reason list exactly when max
\* temperature <= 50, ambient >= 0, anode potential >= 0.005 and final
\* voltage <= 5.0; in every other case it is unsafe with a non-empty list.
C1_SafeIffWithinLimits ==
    outcome.done =>
        LET within == /\ probe.t_max_c <= 5000
                      /\ probe.temp_c >= 0
                      /\ probe.anode_pot >= 500
                      /\ probe.v_final <= 5000
        IN  /\ within => (outcome.verdict.safe /\ outcome.reasons = <<>>)
            /\ ~within => (~outcome.verdict.safe /\ outcome.reasons # <<>>)

C1_Witness ==
    /\ outcome.done
    /\ outcome.verdict.safe
    /\ probe.t_max_c = 4996 /\ probe.temp_c = 25

\* C2: the reason list holds exactly one message for each rule whose
\* condition holds and none for the others, in the order thermal, sub-zero,
\* plating, overvoltage; no rule hides another.
C2_AllMatchingRulesInOrder ==
    outcome.done =>
        RuleNames(outcome.reasons) =
            SelectSeq(RuleOrder, LAMBDA rule : Violates(rule, probe))

C2_Witness ==
    /\ outcome.done
    /\ probe.t_max_c = 5500 /\ probe.v_final = 5500
    /\ probe.temp_c >= 0 /\ probe.anode_pot >= 500
    /\ RuleNames(outcome.reasons) = <<"Thermal Violation", "Overvoltage">>

\* C3: the four comparisons are strict: an input exactly at its limit does
\* not trigger its rule, and with all four at their limits the verdict is
\* safe.
C3_LimitsAreNotViolations ==
    outcome.done =>
        LET named(rule) == \E i \in 1..Len(outcome.reasons) : outcome.reasons[i].rule = rule
        IN  /\ probe.t_max_c = 5000 => ~named("Thermal Violation")
            /\ probe.anode_pot = 500 => ~named("Plating Risk")
            /\ probe.v_final = 5000 => ~named("Overvoltage")
            /\ probe.temp_c = 0 => ~named("Sub-zero hazard")
            /\ (probe.t_max_c = 5000 /\ probe.anode_pot = 500 /\ probe.v_final = 5000
                 /\ probe.temp_c = 0) => outcome.verdict.safe

C3_Witness ==
    /\ outcome.done
    /\ probe = [t_max_c |-> 5000, temp_c |-> 0, anode_pot |-> 500, v_final |-> 5000]
    /\ outcome.verdict.safe

\* C4: an input that violates exactly one rule gives an unsafe verdict with
\* exactly one reason, the message of that rule; an ambient temperature
\* below zero is reported whatever the other three measurements are.
C4_SingleViolationSingleReason ==
    outcome.done =>
        /\ \A i \in 1..Len(RuleOrder) :
             Violated(probe) = {i} =>
                /\ ~outcome.verdict.safe
                /\ RuleNames(outcome.reasons) = <<RuleOrder[i]>>
                /\ outcome.verdict.written = outcome.reasons
        /\ probe.temp_c < 0 =>
             \E j \in 1..Len(outcome.reasons) : outcome.reasons[j] = SubZeroMsg

C4_Witness ==
    /\ outcome.done
    /\ probe = [t_max_c |-> 4996, temp_c |-> -1, anode_pot |-> 2000, v_final |-> 4200]
    /\ RuleNames(outcome.reasons) = <<"Sub-zero hazard">>

(***************************************************************************)
(* Properties of the script runs, checked under Spec.                      *)
(***************************************************************************)
Shown(kind) == {i \in 1..Len(rendered.elements) : rendered.elements[i].st = kind}

ErrorStateShown ==
    \E i \in 1..Len(rendered.elements) :
        rendered.elements[i] = [st |-> "error", body |-> "Physics Divergence"]

TitleShown == Shown("title") # {}
MetricsShown == Cardinality(Shown("metric")) = 5
GridShown == Shown("plotly_chart") # {} /\ Len(rendered.panels) = 8
VerdictShown ==
    \E i \in 1..Len(rendered.elements) :
        \/ rendered.elements[i] = [st |-> "success", body |-> "SAFE TO CHARGE"]
        \/ rendered.elements[i] = [st |-> "error", body |-> "CHARGING UNSAFE"]

ErrorOutcome ==
    ErrorStateShown /\ ~TitleShown /\ Shown("metric") = {} /\ ~GridShown /\ ~VerdictShown
DashboardOutcome ==
    ~ErrorStateShown /\ MetricsShown /\ GridShown /\ VerdictShown

\* C5: a failure token gives the error state and none of the title, the
\* metrics, the grid or the verdict; a series bundle gives metrics, grid and
\* verdict and no error state; every run renders exactly one of the two.
C5_ExactlyOneOutcomeRendered ==
    runs > 0 =>
        /\ sol.type = "str" => ErrorOutcome
        /\ sol.type = "Solution" => DashboardOutcome
        /\ ErrorOutcome # DashboardOutcome

\* what does hold of C5: whenever run_simulation returns, the branch renders
\* the outcome that belongs to the returned value, and only that one
C5_ReturnedValueSelectsOutcome ==
    runs > 0 =>
        /\ sol.type = "str" => (ErrorOutcome /\ ~DashboardOutcome)
        /\ sol.type = "Solution" => (DashboardOutcome /\ ~ErrorOutcome)
        /\ sol.type = "unbound" => (~ErrorOutcome /\ ~DashboardOutcome)

\* C6: every failure of a library call inside run_simulation ends with
\* run_simulation returning the failure token; none leaves it as an
\* exception.
C6_EveryKernelFailureReturnsToken ==
    (kernel.ran /\ kernel.failed # "none") =>
        (sol = SolverCrash /\ rendered.view # "exception")

\* what does hold of C6: a failure of the call inside the try returns the token
C6_SolveFailureReturnsToken ==
    (kernel.ran /\ kernel.failed = "in try") =>
        (sol = SolverCrash /\ rendered.view = "error")

\* C7: a call with arguments that returned before returns the value of the
\* first call with them, and a cache entry, once stored, is never removed
\* or replaced.
C7_MemoizedAndAppendOnly ==
    /\ [](\A a \in DOMAIN first :
            /\ CacheKey(a) \in DOMAIN cache
            /\ cache[CacheKey(a)] = first[a]
            /\ (kernel.args = a /\ runs > 0 /\ sol.type # "unbound") => sol = first[a])
    /\ [][\A k \in DOMAIN cache : k \in DOMAIN cache' /\ cache'[k] = cache[k]]_vars

C7_Witness ==
    /\ runs >= 3
    /\ ~kernel.ran
    /\ sol.type = "Solution"
    /\ Cardinality(DOMAIN cache) >= 2

\* C8: sim.solve is executed at most once for each argument tuple, only in a
\* run whose tuple has no stored outcome, and a rerun with unchanged widgets
\* after a failure token does not execute it again.
C8_SolveAtMostOncePerTuple ==
    /\ [](\A a \in DOMAIN solves : solves[a] <= 1)
    /\ [][(runs' = runs + 1 /\ kernel'.solved) =>
            (kernel'.args \notin DOMAIN first /\ kernel'.args \notin DOMAIN solves)]_vars
    /\ [][(runs' = runs + 1 /\ widgets' = widgets /\ sol = SolverCrash) =>
            (~kernel'.ran /\ ~kernel'.solved /\ sol' = SolverCrash)]_vars

C8_Witness ==
    /\ runs >= 2
    /\ sol = SolverCrash
    /\ ~kernel.ran
    /\ solves[kernel.args] = 1

\* C9: the verdict depends on the four assessment inputs only: equal inputs
\* give equal verdicts and reason lists whatever was assessed before, and a
\* reason list holds nothing left from an earlier run.
C9_VerdictIsFunctionOfInputs ==
    /\ \A x \in verdicts : \A y \in verdicts : x[1] = y[1] => x[2] = y[2]
    /\ rendered.view = "dashboard" =>
          /\ RuleNames(rendered.reasons) =
                SelectSeq(RuleOrder, LAMBDA rule : Violates(rule, rendered.inputs))
          /\ rendered.verdict.safe = (rendered.reasons = <<>>)

C9_Witness ==
    /\ rendered.view = "dashboard"
    /\ ~kernel.ran
    /\ rendered.reasons # <<>>
    /\ Cardinality(verdicts) >= 2

\* C10: the cache is keyed by all eight arguments: what a run renders is the
\* outcome the kernel produced for the current argument tuple, every tuple
\* with an outcome has a cache entry of its own, and the ambient temperature
\* of the sub-zero rule is the one the rendered solution was simulated with.
C10_RenderedOutcomeIsOfCurrentTuple ==
    /\ rendered.view \in {"dashboard", "error"} =>
          /\ <<Arguments(widgets), sol>> \in produced
          /\ (rendered.view = "error") = (sol.type = "str")
    /\ rendered.view = "dashboard" =>
          /\ rendered.inputs.temp_c = kernel.args.temp
          /\ sol.parameter_values.ambient_K = rendered.inputs.temp_c * 100 + 27315
          /\ rendered.inputs.v_final = sol.series.voltage_last
    /\ \A a \in DOMAIN first : \A b \in DOMAIN first :
          a # b => CacheKey(a) # CacheKey(b)
    /\ Cardinality(DOMAIN cache) = Cardinality(DOMAIN first)

C10_Witness ==
    /\ rendered.view = "dashboard"
    /\ Cardinality(DOMAIN cache) >= 3
    /\ widgets.temp_c < 0
    /\ widgets.cooling_coeff # Defaults.cooling_coeff
    /\ \E i \in 1..Len(rendered.reasons) : rendered.reasons[i] = SubZeroMsg

=============================================================================
